---------------------------- MODULE Spec2Model ----------------------------
(***************************************************************************)
(* listenbrainz-playlist-uploader, from the playlist's paths to the        *)
(* feedback requests:                                                      *)
(*   src/src/main.rs        main, resolve_all_songs_for_mbids (the batch), *)
(*                          give_feedback_on_all_songs,                    *)
(*                          calculate_percentage                           *)
(*   src/src/audio_data.rs  load_tags_from_file_path,                      *)
(*                          read_mbid_from_metadata,                       *)
(*   src/src/audio_data.rs  get_musicbrainz_id_for_audio_data,             *)
(*                          make_listenbrainz_lookup_request,              *)
(*                          get_artist_mbid (#[cached])                    *)
(*                                                                         *)
(* One task per track runs inside a FuturesUnordered that is polled by the *)
(* single future of main: tasks interleave only at their await points, so  *)
(* every action below is the code between two awaits of one task.  A panic *)
(* inside a task unwinds through the collector and main: the process ends. *)
(*                                                                         *)
(* The two remote services are the environment.  The metadata-lookup       *)
(* service may answer a request with any of the bodies of LookupBodies or  *)
(* with a transport/HTTP error.  The entity-search service answers from a  *)
(* fixed catalogue (ExactSearch, AliasSearch), or with a transport error.  *)
(* Both keep to their documented shapes: a lookup body is a JSON object    *)
(* and an entity id a well-formed UUID, so of the panics of the resolvers  *)
(* (unwrap of as_object, expect of Uuid::from_str, expect of the search)   *)
(* only the last one can happen here.                                      *)
(*                                                                         *)
(* main.rs is of the revision before AudioIDData: its batch takes          *)
(* AudioFileData only.  What the batch does with an AudioIDData::Mbid      *)
(* element (resolve_direct_id, direct_id_ready) follows the specification. *)
(*                                                                         *)
(* Spec follows playlists of up to MaxTracks files of FilePool,            *)
(* SpecExtract playlists of one file, any of AllFiles, and SpecTiming      *)
(* playlists of up to TimingTracks files over a longer time.               *)
(***************************************************************************)
EXTENDS Integers, Sequences, FiniteSets, TLC

\* Bounds of the model: tracks of a playlist and seconds of a limiter's clock
\* followed, for Spec and SpecExtract and for SpecTiming.
MaxTracks == 2
MaxTime == 6
TimingTracks == 3
TimingTime == 10

\* Quota::with_period(Duration::from_secs(5)): one permit per 5 seconds.
Interval == 5

None == "None"

Min(a, b) == IF a <= b THEN a ELSE b

(***************************************************************************)
(* Data                                                                    *)
(***************************************************************************)

\* enum AudioIDData { Mbid(Uuid), AudioFileData(AudioFileData) } and struct
\* AudioFileData { artist, title, album: Option<String> }, as one record
\* shape; the fields of the other variant hold None.
TrackData(a, t, al) ==
    [kind |-> "AudioFileData", mbid |-> None,
     artist |-> a, title |-> t, album |-> al]
Mbid(u) ==
    [kind |-> "Mbid", mbid |-> u,
     artist |-> None, title |-> None, album |-> None]

\* A track of artist and title, without album.
AudioFileData(a, t) == TrackData(a, t, None)

\* The tracks a playlist of the model may hold (the fixtures of the tests).
TrackPool ==
    { AudioFileData("Ed Sheeran", "Perfect"),
      AudioFileData("Akihito Okano", "Hikari"),
      AudioFileData("Nobody", "Asdjkhfgds") }

\* struct ArtistData { artist_tag, mbid: Option<Uuid> }
ArtistData(tag, id) == [artist_tag |-> tag, mbid |-> id]

\* Strings that Uuid::from_str accepts: hyphenated, in either case.
WellFormedUuids ==
    { "b84dd2d1-2bf1-4fcc-aadc-6cc39c36ba35",
      "B84DD2D1-2BF1-4FCC-AADC-6CC39C36BA35",
      "5d93f99e-6663-4e77-97f1-0835f6b96b00",
      "00000000-0000-4000-8000-000000000001",
      "b8a7c51f-362c-4dcb-a259-bc6e0095f0a6",
      "0f51ab24-c89a-438e-b3af-2d974fa0654a",
      "11111111-1111-4111-8111-111111111111" }

\* anyhow::Result<T>
Ok(v) == [ok |-> TRUE, val |-> v]
Err(e) == [ok |-> FALSE, val |-> e]

\* The Uuid a well-formed string denotes, written as Uuid::to_string writes
\* it: hyphenated, lower case.
Canonical(s) ==
    IF s = "B84DD2D1-2BF1-4FCC-AADC-6CC39C36BA35"
    THEN "b84dd2d1-2bf1-4fcc-aadc-6cc39c36ba35"
    ELSE s

\* Uuid::from_str(s): Ok for a well-formed identifier, an error otherwise.
Uuid_from_str(s) ==
    IF s \in WellFormedUuids THEN Ok(Canonical(s)) ELSE Err("invalid UUID")

(***************************************************************************)
(* An audio file, as the two tag readers see it.  lofty reads the          *)
(* MusicBrainz recording id item of the primary tag; audiotags reads       *)
(* artist, title and album.  A tag that is not there is None.              *)
(*   lofty: "unreadable" | "no primary tag" | "tag"                        *)
(*   mbid_item: None, or the text of the item                              *)
(*   audiotags: "unreadable" | "tag"                                       *)
(***************************************************************************)
AudioFile(l, m, r, a, t, al) ==
    [lofty |-> l, mbid_item |-> m, audiotags |-> r,
     artist |-> a, title |-> t, album |-> al]

\* anyhow::Result<AudioIDData>: a track, or an error in the same shape.
LoadErr(e) ==
    [kind |-> "Err", mbid |-> e, artist |-> None, title |-> None,
     album |-> None]

\* read_mbid_from_metadata
read_mbid_from_metadata(file) ==
    IF file.lofty = "unreadable" THEN Err("lofty: could not read file")
    ELSE IF file.lofty = "tag" /\ file.mbid_item # None
         THEN Uuid_from_str(file.mbid_item)
         ELSE Err("Could not find MBID in tags")

\* A variant of load_tags_from_file_path: an error of the identifier tag is
\* returned at once.
load_tags_mbid_only(file) ==
    IF read_mbid_from_metadata(file).ok
    THEN Mbid(read_mbid_from_metadata(file).val)
    ELSE LoadErr(read_mbid_from_metadata(file).val)

\* load_tags_from_file_path: the embedded identifier first; else artist,
\* title and album, each required to be there; an empty album text is None.
load_tags_from_file_path(file) ==
    IF read_mbid_from_metadata(file).ok
    THEN Mbid(read_mbid_from_metadata(file).val)
    ELSE IF file.audiotags = "unreadable" THEN LoadErr("audiotags: could not read file")
    ELSE IF file.artist = None THEN LoadErr("Could not read artist")
    ELSE IF file.title = None THEN LoadErr("Could not read title")
    ELSE IF file.album = None THEN LoadErr("Could not read album")
    ELSE TrackData(file.artist, file.title,
                   IF file.album = "" THEN None ELSE file.album)

\* main.rs line 97-100: flat_map keeps the Ok values, in order.
RECURSIVE load_all(_)
load_all(entries) ==
    IF entries = << >> THEN << >>
    ELSE IF load_tags_from_file_path(Head(entries)).kind = "Err"
         THEN load_all(Tail(entries))
         ELSE << load_tags_from_file_path(Head(entries)) >>
                \o load_all(Tail(entries))

\* The file of a track of the pool: no identifier item, all three tags.
FileOf(track) ==
    AudioFile("tag", None, "tag", track.artist, track.title, track.title)

\* The files a playlist of the model may name: one per track of the pool, one
\* with an embedded identifier, one that no reader can read.
FilePool ==
    { FileOf(track) : track \in TrackPool } \cup
    { AudioFile("tag", "B84DD2D1-2BF1-4FCC-AADC-6CC39C36BA35", "tag",
                "Ed Sheeran", "Perfect", "Divide"),
      AudioFile("unreadable", None, "unreadable", None, None, None) }

\* Every file of the model: each state of the identifier item with each state
\* of the descriptive tags.
TagTexts == { None, "", " ", "Akihito Okano" }
AllFiles ==
    { AudioFile(l[1], l[2], "tag", a, t, al) :
        l \in { << "unreadable", None >>, << "no primary tag", None >>,
                << "tag", None >>, << "tag", "not-a-uuid" >>,
                << "tag", "B84DD2D1-2BF1-4FCC-AADC-6CC39C36BA35" >>,
                << "tag", "5d93f99e-6663-4e77-97f1-0835f6b96b00" >> },
        a \in TagTexts, t \in { None, "", "Hikari" },
        al \in { None, "", "Hikari" } } \cup
    { AudioFile(l[1], l[2], "unreadable", None, None, None) :
        l \in { << "unreadable", None >>, << "tag", None >>,
                << "tag", "not-a-uuid" >>,
                << "tag", "5d93f99e-6663-4e77-97f1-0835f6b96b00" >> } }

(***************************************************************************)
(* serde_json::Value, as far as the resolver looks at it: an object is a   *)
(* set of <<key, value>> members, a value a string or a number.            *)
(***************************************************************************)
JsonString(s) == [json |-> "string", str |-> s, members |-> {}]
JsonNumber == [json |-> "number", str |-> "", members |-> {}]
JsonObject(m) == [json |-> "object", str |-> "", members |-> m]

\* Value::as_object(): Some for an object only.
is_object(v) == v.json = "object"

\* A variant of is_empty: an object without the identifier counts as empty.
is_empty_or_no_mbid(v) ==
    ~(\E m \in v.members : m[1] = "recording_mbid")

\* Map::is_empty()
is_empty(v) == v.members = {}

\* Value::get(key): Some(value) when the object has the member.
has_member(v, key) == \E m \in v.members : m[1] = key
get(v, key) == (CHOOSE m \in v.members : m[1] = key)[2]

\* Value::as_str(): Some for a string only.
is_str(v) == v.json = "string"


(***************************************************************************)
(* The remote services (environment)                                       *)
(***************************************************************************)

\* The identifier the lookup service holds for a recording title.
RecordingMbid(title) ==
    CASE title = "Perfect" -> "b84dd2d1-2bf1-4fcc-aadc-6cc39c36ba35"
      [] title = "Hikari" -> "5d93f99e-6663-4e77-97f1-0835f6b96b00"
      [] OTHER -> "00000000-0000-4000-8000-000000000001"

\* The bodies GET /1/metadata/lookup/ may answer with, always a JSON object:
\* {} (no match), a match, an object without the identifier, and one with a
\* non-string or an ill-formed identifier.
LookupBodies(artist, title) ==
    { JsonObject({}),
      JsonObject({<<"recording_mbid", JsonString(RecordingMbid(title))>>}),
      JsonObject({<<"recording_name", JsonString(title)>>}),
      JsonObject({<<"recording_mbid", JsonNumber>>}),
      JsonObject({<<"recording_mbid", JsonString("not-a-uuid")>>}) }

\* What .send().await?.error_for_status()?.json().await? can yield: a
\* transport/HTTP error, or a parsed body.
LookupReplies(artist, title) ==
    { [error |-> TRUE, body |-> JsonObject({})] } \cup
    { [error |-> FALSE, body |-> b] : b \in LookupBodies(artist, title) }

Entity(n, i) == [name |-> n, id |-> i]

\* The catalogue of the entity-search service, by exact name and by alias.
ExactSearch(name) ==
    CASE name = "Ed Sheeran" ->
            << Entity("Ed Sheeran", "b8a7c51f-362c-4dcb-a259-bc6e0095f0a6"),
               Entity("Ed Sheeran Tribute", "11111111-1111-4111-8111-111111111111") >>
      [] name = "Okano Akihito" ->
            << Entity("Okano Akihito", "0f51ab24-c89a-438e-b3af-2d974fa0654a") >>
      [] OTHER -> << >>

AliasSearch(name) ==
    CASE name = "Akihito Okano" ->
            << Entity("Okano Akihito", "0f51ab24-c89a-438e-b3af-2d974fa0654a") >>
      [] OTHER -> << >>

\* SearchResult { count, entities } of a query, or a failed search.
SearchResult(entities) ==
    [error |-> FALSE, count |-> Len(entities), entities |-> entities]
SearchFailed == [error |-> TRUE, count |-> 0, entities |-> << >>]

SearchReplies(entities) == { SearchFailed, SearchResult(entities) }

(***************************************************************************)
(* State                                                                   *)
(***************************************************************************)
VARIABLES
    playlist_entries, \* main: the paths read from the playlist file, kept
                      \*   until the batch starts
    number_of_files,  \* main: playlist_entries.len() (-1: not set yet)
    number_of_tagged_songs,   \* main: song_data.len() (-1: not set yet)
    number_of_resolved_songs, \* main: musicbrainz_ids.len() (-1: not set yet)
    percentage,       \* main: the percentage last reported (-1: none yet)
    prompt,           \* main: the answer of Confirm::prompt(), "none" before
    playlists,        \* main: "none" | "ok" | "err", get_current_playlists
    submission,       \* main: "none" | "ok" | "err", submit_playlist
    feedback,         \* main: args.feedback once read, "unread" before
    fb_pc,            \* feedback, per task: "start" | "sent" | "done"
    fb_requests,      \* feedback: the requests sent, as [recording_mbid, score]
    fb_results,       \* feedback: what futures.collect() has gathered
    fb_progress,      \* feedback: ProgressBar position
    fb_log,           \* feedback: the error! lines
    horizon,          \* the time up to which a rate limiter's clock is followed
    song_data,        \* the batch: Vec<AudioIDData>
    phase,            \* where main is: see Phases; or an exit or panic message
    now,              \* the clock, in seconds since the rate limiter was made
    next_permit,      \* rate_limiter: the earliest time of the next permit
    pc,               \* per task: the await it is suspended at, or "done"
    artist,           \* per task: what get_artist_mbid returned to it
    cache,            \* the #[cached] store of get_artist_mbid
    results,          \* what futures.collect() has gathered, completion order
    progress_bar,     \* ProgressBar position
    musicbrainz_ids,  \* the returned Vec<String>
    error_log,        \* the error! lines of the batch
    \* history of the run, read by the properties only
    resp1,            \* per task: body of the first lookup's response
    resp2,            \* per task: body of the second lookup's response
    req2,             \* per task: artist_name parameter of the second lookup
    outcome,          \* per task: the Result its future yielded
    lookups,          \* per task: lookup requests issued
    searches,         \* per task: entity-search requests issued
    late_call,        \* per task: it called get_artist_mbid(s) after a call
                      \*   with the same s had completed
    first_result,     \* per string: result of the first completed call
    last_request,     \* issue time of the latest outbound request (-1: none)
    min_gap           \* smallest time between two outbound requests so far,
                      \*   capped at Interval

main_state == << playlist_entries, number_of_files, number_of_tagged_songs,
                 number_of_resolved_songs, percentage, prompt, playlists,
                 submission, feedback, horizon >>

fb_state == << fb_pc, fb_requests, fb_results, fb_progress, fb_log >>

vars == << main_state, fb_state, song_data, phase, now, next_permit, pc, artist, cache, results,
           progress_bar, musicbrainz_ids, error_log, resp1, resp2, req2,
           outcome, lookups, searches, late_call, first_result,
           last_request, min_gap >>

Tasks == DOMAIN pc

NoResponse == [json |-> "none", str |-> "", members |-> {}]
NoArtist == ArtistData(None, None)
NoResult == [ok |-> FALSE, val |-> None]

\* Sequences over S of length 1 .. n.
Batches(S, n) == UNION { [1 .. k -> S] : k \in 1 .. n }

\* The playlists over S of at most n entries.
Playlists(S, n) == { << >> } \cup Batches(S, n)

\* The state of the tasks of a batch of n tracks before any of them has run
\* (primed: it is set when a batch starts and when its futures are dropped).
TasksReset(n) ==
    /\ pc' = [t \in 1 .. n |-> "start"]
    /\ artist' = [t \in 1 .. n |-> NoArtist]
    /\ results' = << >>
    /\ progress_bar' = 0
    /\ error_log' = << >>
    /\ resp1' = [t \in 1 .. n |-> NoResponse]
    /\ resp2' = [t \in 1 .. n |-> NoResponse]
    /\ req2' = [t \in 1 .. n |-> None]
    /\ outcome' = [t \in 1 .. n |-> NoResult]
    /\ lookups' = [t \in 1 .. n |-> 0]
    /\ searches' = [t \in 1 .. n |-> 0]
    /\ late_call' = [t \in 1 .. n |-> FALSE]
    /\ last_request' = -1
    /\ min_gap' = Interval

task_state == << pc, artist, results, progress_bar, error_log, resp1, resp2,
                 req2, outcome, lookups, searches, late_call, last_request,
                 min_gap >>

\* main.rs lines 87-90: main has read the playlist; entries are its paths,
\* h the horizon of the run.
MainStarts(entries, h) ==
    /\ playlist_entries \in entries
    /\ horizon = h
    /\ number_of_files = -1
    /\ number_of_tagged_songs = -1
    /\ number_of_resolved_songs = -1
    /\ percentage = -1
    /\ prompt = "none"
    /\ playlists = "none"
    /\ submission = "none"
    /\ feedback = "unread"
    /\ fb_pc = << >>
    /\ fb_requests = << >>
    /\ fb_results = << >>
    /\ fb_progress = 0
    /\ fb_log = << >>
    /\ song_data = << >>
    /\ phase = "files"
    /\ now = 0
    /\ next_permit = 0
    /\ pc = << >>
    /\ artist = << >>
    /\ cache = [s \in {} |-> NoArtist]
    /\ results = << >>
    /\ progress_bar = 0
    /\ musicbrainz_ids = << >>
    /\ error_log = << >>
    /\ resp1 = << >>
    /\ resp2 = << >>
    /\ req2 = << >>
    /\ outcome = << >>
    /\ lookups = << >>
    /\ searches = << >>
    /\ late_call = << >>
    /\ first_result = [s \in {} |-> NoArtist]
    /\ last_request = -1
    /\ min_gap = Interval

Init == MainStarts(Playlists(FilePool, MaxTracks), MaxTime)

\* The runs followed for the extractor: a playlist of one file, any file.
InitExtract == MainStarts([1 .. 1 -> AllFiles], MaxTime)

\* The runs followed for the batch's duration: longer playlists over fewer
\* files, and a longer horizon.
TimingPool ==
    { FileOf(AudioFileData("Akihito Okano", "Hikari")),
      AudioFile("tag", "B84DD2D1-2BF1-4FCC-AADC-6CC39C36BA35", "tag",
                "Ed Sheeran", "Perfect", "Divide") }

\* The tasks of a batch are interchangeable (FuturesUnordered polls them in
\* no fixed order), so one ordering of each playlist is followed: the files
\* with an embedded identifier last.  At most two files of a playlist need
\* a lookup (Spec follows the batches of lookups in full); the tasks of the
\* other tracks take their permits all the same.
TimingPlaylists ==
    { p \in Playlists(TimingPool, TimingTracks) :
        /\ \A i, j \in DOMAIN p :
              (i < j /\ p[i].mbid_item # None) => p[j].mbid_item # None
        /\ Cardinality({ i \in DOMAIN p : p[i].mbid_item = None }) <= 2 }

InitTiming == MainStarts(TimingPlaylists, TimingTime)


(***************************************************************************)
(* audio_data.rs: the pure parts of the resolvers                          *)
(***************************************************************************)

\* A variant of extract_mbid: the string is returned without Uuid::from_str.
extract_mbid_unchecked(result) ==
    IF ~has_member(result, "recording_mbid")
    THEN Err("Could not extract recording MBID from JSON")
    ELSE IF ~is_str(get(result, "recording_mbid"))
         THEN Err("Could not convert to string")
         ELSE Ok(get(result, "recording_mbid").str)

\* get_musicbrainz_id_for_audio_data, lines 60-66: result.get("recording_mbid")
\* .ok_or_else(..)?.as_str().ok_or_else(..)?, then Uuid::from_str(out)?.
extract_mbid(result) ==
    IF ~has_member(result, "recording_mbid")
    THEN Err("Could not extract recording MBID from JSON")
    ELSE IF ~is_str(get(result, "recording_mbid"))
         THEN Err("Could not convert to string")
         ELSE Uuid_from_str(get(result, "recording_mbid").str)

\* get_musicbrainz_id_for_audio_data, lines 56-66: what the resolver returns
\* for the last response it holds.
resolve_result(result) ==
    IF is_empty(result) THEN Err("Could not resolve") ELSE extract_mbid(result)

\* A variant of cache_hit: the store is never consulted.
cache_never_hit(c, key) == FALSE

\* #[cached]: the lookup of the key in the store before the body runs.
cache_hit(c, key) == key \in DOMAIN c

\* A variant of cache_set: a store of capacity one, the new entry evicts.
cache_set_evicting(c, key, value) == [k \in {key} |-> value]

\* #[cached]: cache_set(key, result.clone()) after the body has run.
cache_set(c, key, value) ==
    [k \in DOMAIN c \cup {key} |-> IF k = key THEN value ELSE c[k]]

\* get_artist_mbid, lines 98 and 108: result.count <= 0
no_results(result) == result.count <= 0

\* A variant of first_entity: the last entity is taken.
last_entity(result) == result.entities[Len(result.entities)]

\* get_artist_mbid, line 116: result.entities.first().unwrap()
first_entity(result) == Head(result.entities)

\* get_artist_mbid, lines 109-112: nothing found.
artist_not_found(artist_name) == ArtistData(artist_name, None)

\* get_artist_mbid, lines 116-120: the first entity's name and id.
artist_found(result) ==
    ArtistData(first_entity(result).name, first_entity(result).id)

\* A variant of fallback_artist: the second lookup repeats the input artist.
fallback_artist_unresolved(audio_file_data, artist_data) ==
    audio_file_data.artist

\* get_musicbrainz_id_for_audio_data, line 51: the artist of the second lookup.
fallback_artist(audio_file_data, artist_data) == artist_data.artist_tag

(***************************************************************************)
(* main.rs: resolve_all_songs_for_mbids                                    *)
(***************************************************************************)

\* A variant of filter_map: every value is kept, the errors as their text.
keep_all(rs) == [i \in 1 .. Len(rs) |-> rs[i].val]

\* lines 232-241: filter_map keeps the Ok values, in order.
RECURSIVE filter_map(_)
filter_map(rs) ==
    IF rs = << >> THEN << >>
    ELSE IF Head(rs).ok THEN << Head(rs).val >> \o filter_map(Tail(rs))
         ELSE filter_map(Tail(rs))

\* lines 236-239: one error! line per Err value, in order.
RECURSIVE logged_errors(_)
logged_errors(rs) ==
    IF rs = << >> THEN << >>
    ELSE IF Head(rs).ok THEN logged_errors(Tail(rs))
         ELSE << Head(rs).val >> \o logged_errors(Tail(rs))

\* An outbound request leaves at the current time.
Issue ==
    /\ last_request' = now
    /\ min_gap' = IF last_request < 0 THEN min_gap
                  ELSE Min(min_gap, now - last_request)

\* A variant of Finish: the progress bar counts the resolved tracks only.
Finish_counting_successes(t, res) ==
    LET rs == Append(results, res) IN
    /\ pc' = [pc EXCEPT ![t] = "done"]
    /\ outcome' = [outcome EXCEPT ![t] = res]
    /\ progress_bar' = IF res.ok THEN progress_bar + 1 ELSE progress_bar
    /\ results' = rs
    /\ IF \A u \in Tasks \ {t} : pc[u] = "done"
       THEN /\ phase' = "returned"
            /\ musicbrainz_ids' = filter_map(rs)
            /\ error_log' = logged_errors(rs)
       ELSE UNCHANGED << phase, musicbrainz_ids, error_log >>
    /\ UNCHANGED << artist, req2, lookups, searches, cache, first_result,
                    last_request, min_gap >>

\* lines 223-226 and 231-242: the task's future yields res, the progress bar
\* advances and the collector takes the value; with the last task the
\* collector finishes and the function returns the filtered values.
Finish(t, res) ==
    LET rs == Append(results, res) IN
    /\ pc' = [pc EXCEPT ![t] = "done"]
    /\ outcome' = [outcome EXCEPT ![t] = res]
    /\ progress_bar' = progress_bar + 1
    /\ results' = rs
    /\ IF \A u \in Tasks \ {t} : pc[u] = "done"
       THEN /\ phase' = "returned"
            /\ musicbrainz_ids' = filter_map(rs)
            /\ error_log' = logged_errors(rs)
       ELSE UNCHANGED << phase, musicbrainz_ids, error_log >>
    /\ UNCHANGED << artist, req2, lookups, searches, cache, first_result,
                    last_request, min_gap >>

\* main.rs lines 211-213 and 176-178: Quota::with_period gives one permit per
\* period and no burst; a permit taken at time at, the next is due a period
\* later.
replenished_at_once(at) == at

replenished(at) == at + Interval

\* A panic in a task unwinds through futures.collect() and main.
Panic(msg) ==
    /\ phase' = msg
    /\ UNCHANGED << pc, outcome, progress_bar, results, musicbrainz_ids,
                    error_log, artist, req2, lookups, searches, cache,
                    first_result, last_request, min_gap >>

PanicMessages ==
    { "panic: Could not make search",
      "panic: called Option::unwrap() on a None value",
      "panic: Could not convert to valid UUID",
      "panic: Could not calculate percentage of tagged songs",
      "panic: Could not calculate percentage of resolved songs" }

Panicked == phase \in PanicMessages

\* audio_data.rs lines 48-53: the second lookup leaves with the artist_tag.
SendSecondLookup(t, a) ==
    /\ artist' = [artist EXCEPT ![t] = a]
    /\ req2' = [req2 EXCEPT ![t] = fallback_artist(song_data[t], a)]
    /\ lookups' = [lookups EXCEPT ![t] = @ + 1]
    /\ pc' = [pc EXCEPT ![t] = "lookup2"]
    /\ Issue
    /\ UNCHANGED << outcome, progress_bar, results, phase, musicbrainz_ids,
                    error_log, searches >>

\* audio_data.rs lines 89-95 and 99-105: a search request leaves.
SendSearch(t, mode) ==
    /\ searches' = [searches EXCEPT ![t] = @ + 1]
    /\ pc' = [pc EXCEPT ![t] = mode]
    /\ Issue
    /\ UNCHANGED << outcome, progress_bar, results, phase, musicbrainz_ids,
                    error_log, artist, req2, lookups, cache, first_result >>

\* get_artist_mbid returns a: the #[cached] wrapper stores it under the input
\* string, and the caller goes on to the second lookup.
ArtistReturn(t, a) ==
    LET name == song_data[t].artist IN
    /\ cache' = cache_set(cache, name, a)
    /\ first_result' = IF name \in DOMAIN first_result THEN first_result
                       ELSE [k \in DOMAIN first_result \cup {name} |->
                               IF k = name THEN a ELSE first_result[k]]
    /\ SendSecondLookup(t, a)

\* main.rs line 222 then audio_data.rs lines 38-43: the task takes its permit
\* and its first lookup leaves.
until_ready(t) ==
    /\ phase = "running"
    /\ pc[t] = "start"
    /\ song_data[t].kind = "AudioFileData"
    /\ now >= next_permit
    /\ next_permit' = replenished(now)
    /\ pc' = [pc EXCEPT ![t] = "lookup1"]
    /\ lookups' = [lookups EXCEPT ![t] = @ + 1]
    /\ Issue
    /\ UNCHANGED << main_state, fb_state, song_data, now, artist, cache, results, progress_bar,
                    musicbrainz_ids, error_log, phase, resp1, resp2, req2,
                    outcome, searches, late_call, first_result >>

\* audio_data.rs lines 43-47 (and 56-66 when there is no fallback): the first
\* lookup's response arrives.
first_lookup_response(t) ==
    /\ phase = "running"
    /\ pc[t] = "lookup1"
    /\ UNCHANGED << main_state, fb_state, song_data, now, next_permit, resp2 >>
    /\ \E reply \in LookupReplies(song_data[t].artist, song_data[t].title) :
         LET name == song_data[t].artist IN
         IF reply.error
         THEN /\ Finish(t, Err("RemoteServiceError"))
              /\ UNCHANGED << resp1, late_call >>
         ELSE /\ resp1' = [resp1 EXCEPT ![t] = reply.body]
              /\ IF ~is_object(reply.body)
                 THEN /\ Panic("panic: called Option::unwrap() on a None value")
                      /\ UNCHANGED late_call
                 ELSE IF is_empty(reply.body)
                 THEN /\ late_call' =
                            [late_call EXCEPT ![t] = name \in DOMAIN first_result]
                      /\ IF cache_hit(cache, name)
                         THEN /\ SendSecondLookup(t, cache[name])
                              /\ UNCHANGED << cache, first_result >>
                         ELSE SendSearch(t, "search_exact")
                 ELSE /\ Finish(t, resolve_result(reply.body))
                      /\ UNCHANGED late_call

\* audio_data.rs lines 92-106: the exact-name search's response arrives.
exact_search_response(t) ==
    /\ phase = "running"
    /\ pc[t] = "search_exact"
    /\ UNCHANGED << main_state, fb_state, song_data, now, next_permit, resp1, resp2, late_call >>
    /\ \E reply \in SearchReplies(ExactSearch(song_data[t].artist)) :
         IF reply.error
         THEN Panic("panic: Could not make search")
         ELSE IF no_results(reply)
         THEN SendSearch(t, "search_alias")
         ELSE IF ~Uuid_from_str(first_entity(reply).id).ok
         THEN Panic("panic: Could not convert to valid UUID")
         ELSE ArtistReturn(t, artist_found(reply))

\* audio_data.rs lines 102-120: the alias search's response arrives.
alias_search_response(t) ==
    /\ phase = "running"
    /\ pc[t] = "search_alias"
    /\ UNCHANGED << main_state, fb_state, song_data, now, next_permit, resp1, resp2, late_call >>
    /\ \E reply \in SearchReplies(AliasSearch(song_data[t].artist)) :
         IF reply.error
         THEN Panic("panic: Could not make search")
         ELSE IF no_results(reply)
         THEN ArtistReturn(t, artist_not_found(song_data[t].artist))
         ELSE IF ~Uuid_from_str(first_entity(reply).id).ok
         THEN Panic("panic: Could not convert to valid UUID")
         ELSE ArtistReturn(t, artist_found(reply))

\* audio_data.rs lines 53-66: the second lookup's response arrives.
second_lookup_response(t) ==
    /\ phase = "running"
    /\ pc[t] = "lookup2"
    /\ UNCHANGED << main_state, fb_state, song_data, now, next_permit, resp1, late_call >>
    /\ \E reply \in LookupReplies(req2[t], song_data[t].title) :
         IF reply.error
         THEN /\ Finish(t, Err("RemoteServiceError"))
              /\ UNCHANGED resp2
         ELSE /\ resp2' = [resp2 EXCEPT ![t] = reply.body]
              /\ IF ~is_object(reply.body)
                 THEN Panic("panic: called Option::unwrap() on a None value")
                 ELSE Finish(t, resolve_result(reply.body))

\* Time passes while a batch runs.
Tick ==
    /\ phase \in { "running", "feedback" }
    /\ now < horizon
    /\ now' = now + 1
    /\ UNCHANGED << main_state, fb_state, song_data, phase, next_permit, pc, artist, cache, results,
                    progress_bar, musicbrainz_ids, error_log, resp1, resp2,
                    req2, outcome, lookups, searches, late_call, first_result,
                    last_request, min_gap >>

(***************************************************************************)
(* main.rs: main around the batch, and the feedback batch                  *)
(***************************************************************************)

\* main.rs lines 245-253: None when the denominator is zero (usize::to_f64
\* never fails); the percentage is kept as a whole number.
calculate_percentage_guarding_first(first, second) ==
    IF first # 0 THEN [some |-> TRUE, val |-> (first * 100) \div second]
    ELSE [some |-> FALSE, val |-> -1]

calculate_percentage(first, second) ==
    IF second # 0 THEN [some |-> TRUE, val |-> (first * 100) \div second]
    ELSE [some |-> FALSE, val |-> -1]

\* main.rs lines 89-95.
check_files ==
    /\ phase = "files"
    /\ number_of_files' = Len(playlist_entries)
    /\ phase' = IF Len(playlist_entries) = 0
                THEN "exit: No files read from playlist, aborting"
                ELSE "tags"
    /\ UNCHANGED << playlist_entries, number_of_tagged_songs,
                    number_of_resolved_songs, percentage, prompt, playlists,
                    submission, feedback, horizon, fb_state, song_data, now,
                    next_permit, cache, first_result, musicbrainz_ids,
                    task_state >>

\* main.rs lines 97-112.
read_tags ==
    /\ phase = "tags"
    /\ LET data == load_all(playlist_entries)
           p == calculate_percentage(Len(data), number_of_files)
       IN /\ song_data' = data
          /\ number_of_tagged_songs' = Len(data)
          /\ IF ~p.some
             THEN /\ phase' = "panic: Could not calculate percentage of tagged songs"
                  /\ UNCHANGED percentage
             ELSE /\ percentage' = p.val
                  /\ phase' = IF Len(data) = 0
                              THEN "exit: No tagged songs could be read, aborting"
                              ELSE "resolve"
    /\ UNCHANGED << playlist_entries, number_of_files,
                    number_of_resolved_songs, prompt, playlists, submission,
                    feedback, horizon, fb_state, now,
                    next_permit, cache, first_result, musicbrainz_ids,
                    task_state >>

\* main.rs lines 114-115 and 209-229: resolve_all_songs_for_mbids is entered,
\* its rate limiter made and one future per element of song_data collected.
start_resolution ==
    /\ phase = "resolve"
    /\ phase' = "running"
    /\ now' = 0
    /\ next_permit' = 0
    /\ TasksReset(Len(song_data))
    /\ playlist_entries' = << >>
    /\ UNCHANGED << number_of_files, number_of_tagged_songs,
                    number_of_resolved_songs, percentage, prompt, playlists,
                    submission, feedback, horizon, fb_state, song_data,
                    cache, first_result, musicbrainz_ids >>

\* A track that carries its recording id needs no lookup.
resolve_direct_id_rejecting(track) == Err("unsupported variant")

resolve_direct_id(track) == Ok(track.mbid)

\* main.rs lines 221-225 for an AudioIDData::Mbid element: the task takes its
\* permit, as every element's task does, and yields the embedded id.
direct_id_ready(t) ==
    /\ phase = "running"
    /\ pc[t] = "start"
    /\ song_data[t].kind = "Mbid"
    /\ now >= next_permit
    /\ next_permit' = replenished(now)
    /\ Finish(t, resolve_direct_id(song_data[t]))
    /\ UNCHANGED << main_state, fb_state, song_data, now, resp1, resp2,
                    late_call >>

\* main.rs lines 117-123: the batch has returned; its futures, results and
\* progress bar are gone.
report_resolved ==
    /\ phase = "returned"
    /\ LET p == calculate_percentage(Len(musicbrainz_ids),
                                     number_of_tagged_songs)
       IN /\ number_of_resolved_songs' = Len(musicbrainz_ids)
          /\ IF ~p.some
             THEN /\ phase' = "panic: Could not calculate percentage of resolved songs"
                  /\ UNCHANGED percentage
             ELSE /\ percentage' = p.val
                  /\ phase' = "confirm"
    /\ song_data' = << >>
    /\ TasksReset(0)
    /\ UNCHANGED << playlist_entries, number_of_files, number_of_tagged_songs,
                    prompt, playlists, submission, feedback, horizon,
                    fb_state, now, next_permit, cache, first_result,
                    musicbrainz_ids >>

PromptAnswers == { "Ok(true)", "Ok(false)", "Err" }

\* A variant of confirm: the run goes on whatever the answer is.
confirm_ignoring_answer ==
    /\ phase = "confirm"
    /\ \E answer \in PromptAnswers : prompt' = answer
    /\ phase' = "playlists"
    /\ UNCHANGED << playlist_entries, number_of_files, number_of_tagged_songs,
                    number_of_resolved_songs, percentage, playlists,
                    submission, feedback, horizon, fb_state, song_data, now,
                    next_permit, cache, first_result, musicbrainz_ids,
                    task_state >>

\* A variant of confirm: the prompt comes before the batch is started.
confirm_before_resolution ==
    /\ phase = "resolve"
    /\ prompt = "none"
    /\ \E answer \in PromptAnswers :
          /\ prompt' = answer
          /\ phase' = IF answer = "Ok(false)" THEN "exit: Aborting"
                      ELSE "resolve"
    /\ UNCHANGED << playlist_entries, number_of_files, number_of_tagged_songs,
                    number_of_resolved_songs, percentage, playlists,
                    submission, feedback, horizon, fb_state, song_data, now,
                    next_permit, cache, first_result, musicbrainz_ids,
                    task_state >>

\* main.rs lines 125-142: the prompt is answered; unless the answer is no,
\* the request for the current playlists leaves.
confirm ==
    /\ phase = "confirm"
    /\ \E answer \in PromptAnswers :
          /\ prompt' = answer
          /\ phase' = IF answer = "Ok(false)" THEN "exit: Aborting"
                      ELSE "playlists"
    /\ UNCHANGED << playlist_entries, number_of_files, number_of_tagged_songs,
                    number_of_resolved_songs, percentage, playlists,
                    submission, feedback, horizon, fb_state, song_data, now,
                    next_permit, cache, first_result, musicbrainz_ids,
                    task_state >>

\* main.rs lines 142-155: get_current_playlists answers; on success the
\* playlist submission leaves.
playlists_response ==
    /\ phase = "playlists"
    /\ \E r \in { "ok", "err" } :
          /\ playlists' = r
          /\ phase' = IF r = "err"
                      THEN "exit: Could not retrieve existing playlists"
                      ELSE "submit"
    /\ UNCHANGED << playlist_entries, number_of_files, number_of_tagged_songs,
                    number_of_resolved_songs, percentage, prompt, submission,
                    feedback, horizon, fb_state, song_data, now, next_permit,
                    cache, first_result, musicbrainz_ids, task_state >>

\* main.rs lines 41-47: enum Feedback and its discriminants.
Feedbacks == { "LOVE", "HATE", "NEUTRAL" }

feedback_as_i8(f) ==
    CASE f = "LOVE" -> 1
      [] f = "HATE" -> -1
      [] f = "NEUTRAL" -> 0

\* i8::to_string for the values a Feedback takes.
to_string(n) ==
    CASE n = 1 -> "1"
      [] n = -1 -> "-1"
      [] n = 0 -> "0"

\* main.rs line 275: the score is always that of LOVE.
score_always_love(f) == to_string(feedback_as_i8("LOVE"))

\* main.rs line 275.
score(f) == to_string(feedback_as_i8(f))

\* main.rs lines 273-280: the request of give_song_feedback_for_mbid; task
\* and at are history: the task that sent it and the time it left.
feedback_request(i, mbid, f) ==
    [task |-> i, recording_mbid |-> mbid, score |-> score(f), at |-> now]

\* main.rs lines 155-170 and 173-198: submit_playlist answers (an error is
\* only logged); with a feedback option give_feedback_on_all_songs is
\* entered, its rate limiter made and one future per id collected.
submit_response ==
    /\ phase = "submit"
    /\ \E r \in { "ok", "err" } : submission' = r
    /\ \E f \in { None } \cup Feedbacks :
          /\ feedback' = f
          /\ IF f = None \/ musicbrainz_ids = << >>
             THEN /\ phase' = "finished"
                  /\ UNCHANGED << fb_pc, now, next_permit >>
             ELSE /\ phase' = "feedback"
                  /\ fb_pc' = [i \in 1 .. Len(musicbrainz_ids) |-> "start"]
                  /\ now' = 0
                  /\ next_permit' = 0
    /\ UNCHANGED << playlist_entries, number_of_files, number_of_tagged_songs,
                    number_of_resolved_songs, percentage, prompt, playlists,
                    horizon, fb_requests, fb_results, fb_progress, fb_log,
                    song_data, cache, first_result, musicbrainz_ids,
                    task_state >>

\* main.rs lines 189-190 and 273-280: a feedback task gets its permit and
\* its request leaves.
fb_until_ready(i) ==
    /\ phase = "feedback"
    /\ fb_pc[i] = "start"
    /\ now >= next_permit
    /\ next_permit' = replenished(now)
    /\ fb_pc' = [fb_pc EXCEPT ![i] = "sent"]
    /\ fb_requests' = Append(fb_requests,
                             feedback_request(i, musicbrainz_ids[i], feedback))
    /\ UNCHANGED << main_state, fb_results, fb_progress, fb_log, song_data,
                    phase, now, cache, first_result, musicbrainz_ids,
                    task_state >>

\* main.rs lines 281-284.
feedback_result(response_ok) ==
    IF response_ok THEN Ok("()") ELSE Err("error sending request")

\* main.rs lines 281-284, 191-192 and 198-207: the response of a feedback
\* request arrives; after the last one the errors are logged and main ends.
fb_response(i) ==
    /\ phase = "feedback"
    /\ fb_pc[i] = "sent"
    /\ \E response_ok \in BOOLEAN :
          LET rs == Append(fb_results, feedback_result(response_ok)) IN
          /\ fb_results' = rs
          /\ IF \A j \in DOMAIN fb_pc \ {i} : fb_pc[j] = "done"
             THEN /\ phase' = "finished"
                  /\ fb_log' = logged_errors(rs)
             ELSE UNCHANGED << phase, fb_log >>
    /\ fb_pc' = [fb_pc EXCEPT ![i] = "done"]
    /\ fb_progress' = fb_progress + 1
    /\ UNCHANGED << main_state, fb_requests, song_data, now, next_permit,
                    cache, first_result, musicbrainz_ids, task_state >>

Next ==
    \/ \E t \in Tasks : until_ready(t)
    \/ \E t \in Tasks : first_lookup_response(t)
    \/ \E t \in Tasks : exact_search_response(t)
    \/ \E t \in Tasks : alias_search_response(t)
    \/ \E t \in Tasks : second_lookup_response(t)
    \/ \E t \in Tasks : direct_id_ready(t)
    \/ Tick
    \/ check_files
    \/ read_tags
    \/ start_resolution
    \/ report_resolved
    \/ confirm
    \/ playlists_response
    \/ submit_response
    \/ \E i \in DOMAIN fb_pc : fb_until_ready(i)
    \/ \E i \in DOMAIN fb_pc : fb_response(i)

Spec == Init /\ [][Next]_vars

SpecTiming == InitTiming /\ [][Next]_vars

SpecExtract == InitExtract /\ [][Next]_vars


(***************************************************************************)
(* Properties                                                              *)
(***************************************************************************)

Succeeded == { t \in Tasks : pc[t] = "done" /\ outcome[t].ok }
Failed == { t \in Tasks : pc[t] = "done" /\ ~outcome[t].ok }

\* The number of positions of sequence q that hold v.
Count(q, v) == Cardinality({ i \in 1 .. Len(q) : q[i] = v })

EmptyObject == JsonObject({})

\* C1: the batch is fault-isolating: whatever makes k of the N resolutions
\* fail, nothing is raised to the caller, and when the call has returned the
\* output holds exactly the identifiers of the N-k tracks that succeeded and
\* the log one line per failure.
C1_BatchFaultIsolating ==
    /\ ~Panicked
    /\ phase = "returned" =>
         /\ Len(musicbrainz_ids) = Len(song_data) - Cardinality(Failed)
         /\ \A id \in WellFormedUuids :
              Count(musicbrainz_ids, id) =
                Cardinality({ t \in Succeeded : outcome[t].val = id })
         /\ Len(error_log) = Cardinality(Failed)

\* C2: a transport error of an artist search is fatal for its track only:
\* it never ends the process.
C2_SearchErrorFatalForTrackOnly ==
    phase # "panic: Could not make search"

\* C3: each track contributes one identifier or none: the collector holds one
\* value per finished task, and the returned sequence holds as many
\* identifiers as tasks succeeded, never more than there are tracks.
C3_AtMostOneIdPerTrack ==
    /\ Len(results) = Cardinality({ t \in Tasks : pc[t] = "done" })
    /\ phase = "returned" =>
         /\ Len(musicbrainz_ids) = Cardinality(Succeeded)
         /\ Len(musicbrainz_ids) <= Len(song_data)

\* C3's case: a batch of two has returned one identifier and dropped a track.
C3_Witness ==
    /\ phase = "returned"
    /\ Len(song_data) = 2
    /\ Len(musicbrainz_ids) = 1


\* The Artist Resolver as a function of its input, read off the catalogue:
\* the first exact match, else the first alias match, else the input itself
\* without an identifier.
ArtistIdentity(s) ==
    IF ExactSearch(s) # << >>
    THEN ArtistData(ExactSearch(s)[1].name, ExactSearch(s)[1].id)
    ELSE IF AliasSearch(s) # << >>
         THEN ArtistData(AliasSearch(s)[1].name, AliasSearch(s)[1].id)
         ELSE ArtistData(s, None)

\* A response that is a non-empty object without a well-formed identifier
\* string under "recording_mbid".
Unparseable(v) ==
    /\ v.json = "object"
    /\ v.members # {}
    /\ ~ \E m \in v.members :
           /\ m[1] = "recording_mbid"
           /\ m[2].json = "string"
           /\ m[2].str \in WellFormedUuids

\* A response that carries a well-formed identifier.
Parseable(v) == v.json = "object" /\ v.members # {} /\ ~Unparseable(v)

MalformedResponse ==
    { "Could not extract recording MBID from JSON",
      "Could not convert to string",
      "invalid UUID" }

InFallback(t) ==
    \/ pc[t] \in { "search_exact", "search_alias", "lookup2" }
    \/ lookups[t] > 1
    \/ searches[t] > 0
    \/ artist[t] # NoArtist

\* C4: the fallback is entered only after an empty first response; a first
\* response that is non-empty but unparseable ends the track at once with a
\* MalformedResponse error, no artist resolution and no second lookup.
C4_FallbackOnlyOnEmpty ==
    \A t \in Tasks :
      /\ InFallback(t) => resp1[t] = EmptyObject
      /\ Unparseable(resp1[t]) =>
           /\ pc[t] = "done"
           /\ ~outcome[t].ok
           /\ outcome[t].val \in MalformedResponse
           /\ lookups[t] = 1
           /\ ~InFallback(t)

\* C4's case: a track ended on an unparseable first response.
C4_Witness ==
    \E t \in Tasks : Unparseable(resp1[t]) /\ pc[t] = "done"

\* C5: a finished track failed with UnresolvedTrack exactly when both
\* lookups came back empty; the second lookup is made with the Artist
\* Resolver's display name; an empty first and a parseable second response
\* give the second response's identifier.
C5_UnresolvedIffBothEmpty ==
    \A t \in Tasks :
      /\ lookups[t] = 2 =>
           req2[t] = ArtistIdentity(song_data[t].artist).artist_tag
      /\ pc[t] = "done" =>
           /\ outcome[t] = Err("Could not resolve") <=>
                (resp1[t] = EmptyObject /\ resp2[t] = EmptyObject)
           /\ (resp1[t] = EmptyObject /\ Parseable(resp2[t])) =>
                /\ outcome[t].ok
                /\ << "recording_mbid", JsonString(outcome[t].val) >>
                     \in resp2[t].members

\* C5's case: one track resolved by its second lookup under another artist
\* name than its tag, another one unresolved after two empty responses.
C5_Witness ==
    \E t, u \in Tasks :
      /\ pc[t] = "done" /\ pc[u] = "done"
      /\ resp1[t] = EmptyObject /\ Parseable(resp2[t]) /\ outcome[t].ok
      /\ req2[t] # song_data[t].artist
      /\ resp1[u] = EmptyObject /\ resp2[u] = EmptyObject


RoundTrips(t) == lookups[t] + searches[t]

\* C6 as stated: one external round trip when the first lookup is non-empty,
\* two in the fallback case, never more than two for one track.
C6_AtMostTwoRoundTrips ==
    \A t \in Tasks :
      /\ RoundTrips(t) <= 2
      /\ (pc[t] = "done" /\ resp1[t] # NoResponse /\ resp1[t] # EmptyObject)
           => RoundTrips(t) = 1
      /\ (pc[t] = "done" /\ resp2[t] # NoResponse) => RoundTrips(t) = 2

\* C6 as amended: the resolver makes one lookup request, and nothing else,
\* when the first response is non-empty; in the fallback case it makes two
\* lookup requests and, between them, the Artist Resolver's searches: none
\* when the artist was resolved before, else the exact search and, when that
\* found nothing, the alias search.  At most four round trips for a track.
C6_RoundTripsPerTrack ==
    \A t \in Tasks :
      /\ lookups[t] <= 2
      /\ searches[t] <= 2
      /\ RoundTrips(t) <= 4
      /\ (pc[t] = "done" /\ resp1[t] # NoResponse /\ resp1[t] # EmptyObject)
           => (lookups[t] = 1 /\ searches[t] = 0)
      /\ (pc[t] = "done" /\ resp2[t] # NoResponse) =>
           /\ lookups[t] = 2
           /\ searches[t] =
                IF late_call[t] THEN 0
                ELSE IF ExactSearch(song_data[t].artist) # << >> THEN 1
                ELSE 2

\* C6's case: a track finished its fallback after four round trips.
C6_Witness ==
    \E t \in Tasks :
      pc[t] = "done" /\ resp2[t] # NoResponse /\ RoundTrips(t) = 4

\* C7: a call of get_artist_mbid(s) made after a call with the same s has
\* completed issues no search and returns what the first call returned.
C7_ArtistResolverMemoized ==
    \A t \in Tasks :
      late_call[t] =>
        /\ searches[t] = 0
        /\ pc[t] \notin { "search_exact", "search_alias" }
        /\ song_data[t].artist \in DOMAIN first_result
        /\ artist[t] = first_result[song_data[t].artist]

\* C7's case: a track that called the resolver after another track's call
\* with the same string had completed, and went on to finish.
C7_Witness ==
    \E t, u \in Tasks :
      /\ t # u
      /\ song_data[t].artist = song_data[u].artist
      /\ late_call[t] /\ pc[t] = "done"
      /\ searches[u] > 0 /\ artist[u] # NoArtist

\* C8: the alias search is issued exactly when the exact search found
\* nothing, and the resolver returns the first exact match, else the first
\* alias match, else the input without an identifier; so an identity without
\* an identifier carries the input as its name.
C8_ArtistResolverResult ==
    \A t \in Tasks :
      LET s == song_data[t].artist IN
      /\ pc[t] = "search_alias" => (searches[t] = 2 /\ ExactSearch(s) = << >>)
      /\ pc[t] = "search_exact" => searches[t] = 1
      /\ (searches[t] > 0 /\ artist[t] # NoArtist) =>
           (searches[t] = 2 <=> ExactSearch(s) = << >>)
      /\ artist[t] # NoArtist =>
           /\ artist[t] = ArtistIdentity(s)
           /\ artist[t].mbid = None => artist[t].artist_tag = s

\* C8's case: one call returned an alias match after an empty exact search,
\* another one found nothing in either search.
C8_Witness ==
    /\ \E t \in Tasks :
         /\ searches[t] = 2
         /\ artist[t] # NoArtist
         /\ artist[t].mbid # None
         /\ artist[t].artist_tag # song_data[t].artist
    /\ \E t \in Tasks :
         /\ searches[t] = 2
         /\ artist[t] # NoArtist
         /\ artist[t].mbid = None

\* The store never loses an entry and never changes the value of one.
CacheStable ==
    \A s \in DOMAIN cache : s \in DOMAIN cache' /\ cache'[s] = cache[s]

\* C9: under every interleaving the artist cache is append-only and a write
\* for a string already present stores the value already there; calls that
\* overlap may both miss and both search, and every call, overlapping or
\* not, obtains the identity the catalogue gives for its string.
C9_CacheAppendOnly ==
    [][ /\ CacheStable
        /\ \A t \in DOMAIN artist' :
             artist'[t] # NoArtist =>
               artist'[t] = ArtistIdentity(song_data'[t].artist) ]_vars

\* C9's case: two tracks with the same artist both missed the cache, both
\* issued searches, and both stored their result.
C9_Witness ==
    \E t, u \in Tasks :
      /\ t # u
      /\ song_data[t].artist = song_data[u].artist
      /\ searches[t] > 0 /\ searches[u] > 0
      /\ artist[t] # NoArtist /\ artist[u] # NoArtist

C12_ProgressCount ==
    [][ phase = "running" =>
          /\ progress_bar' >= progress_bar
          /\ progress_bar' - progress_bar =
                Cardinality({ t \in Tasks : pc[t] # "done" /\ pc'[t] = "done" })
          /\ progress_bar' <= Len(song_data)
          /\ phase' = "returned" => progress_bar' = Len(song_data) ]_vars

\* C12's case: a batch of two has returned, one track resolved and one
\* failed, both counted.
C12_Witness ==
    /\ phase = "returned"
    /\ Succeeded # {} /\ Failed # {}
    /\ progress_bar = Cardinality(Succeeded) + Cardinality(Failed)

\* C13: once started, a batch runs to completion: whatever the services
\* answer, a result or an error, the running batch is left only by
\* resolve_batch returning, and it returns after all N tasks have reported.
C13_BatchRunsToCompletion ==
    [][ phase = "running" =>
          /\ phase' \in { "running", "returned" }
          /\ phase' = "returned" => \A t \in Tasks : pc'[t] = "done" ]_vars

\* C14, as stated: the confirmation prompt is answered strictly before the
\* resolution batch starts: no permit is acquired and no lookup request
\* issued by the resolution pipeline until the confirmation has completed.
C14_PromptBeforeResolution ==
    (\E t \in Tasks : pc[t] # "start") => prompt # "none"

BeforeReport == { "files", "tags", "resolve", "running", "returned" }

\* C14, amended: the confirmation prompt is answered strictly after the
\* resolution batch has returned: it never occurs before or during
\* resolution (also not in a run that resolution ends by a panic), and once
\* it is answered the batch's tasks are gone and its count reported.
C14_PromptAfterResolution ==
    /\ (phase \in BeforeReport \/ Panicked) => prompt = "none"
    /\ prompt # "none" =>
          /\ Tasks = {}
          /\ number_of_resolved_songs = Len(musicbrainz_ids)
          /\ number_of_tagged_songs > 0

\* C14's case: the prompt has been answered, after a batch that resolved a
\* track.
C14_Witness ==
    /\ prompt \in PromptAnswers
    /\ number_of_resolved_songs > 0

TheFile == playlist_entries[1]

TagsRead ==
    /\ Len(playlist_entries) = 1
    /\ number_of_tagged_songs # -1
    /\ number_of_resolved_songs = -1

\* The identifier item is there, readable and well-formed.
IdUsable(file) ==
    /\ file.lofty = "tag"
    /\ file.mbid_item \in WellFormedUuids

\* All three descriptive tags can be read.
TagsComplete(file) ==
    /\ file.audiotags = "tag"
    /\ file.artist # None /\ file.title # None /\ file.album # None

\* C16: the extractor tries the embedded identifier first: a well-formed one
\* gives a DirectId whatever the descriptive tags are; an absent, malformed
\* or unreadable one is no failure but leaves the result to the descriptive
\* tags; the extractor fails only if both steps fail.
C16_IdentifierFirst ==
    TagsRead =>
      /\ IdUsable(TheFile) =>
            song_data = << Mbid(Canonical(TheFile.mbid_item)) >>
      /\ (~IdUsable(TheFile) /\ song_data # << >>) =>
            /\ song_data[1].kind = "AudioFileData"
            /\ song_data[1].artist = TheFile.artist
            /\ song_data[1].title = TheFile.title
      /\ (~IdUsable(TheFile) /\ TagsComplete(TheFile)) => song_data # << >>
      /\ song_data = << >> => (~IdUsable(TheFile) /\ ~TagsComplete(TheFile))

\* C16's case: the identifier item is there but malformed, and the track is
\* taken from the descriptive tags.
C16_Witness ==
    /\ TagsRead
    /\ TheFile.mbid_item = "not-a-uuid"
    /\ song_data # << >>
    /\ song_data[1].kind = "AudioFileData"

\* str::trim for the tag texts of the model.
trim(s) == IF s = " " THEN "" ELSE s

\* C17: without a well-formed embedded identifier the extractor returns
\* Descriptive if and only if artist and title are present and non-empty
\* after trimming; a missing or empty album is no failure and gives an
\* absent album.
C17_DescriptiveIffArtistAndTitle ==
    (TagsRead /\ ~IdUsable(TheFile)) =>
      /\ song_data # << >> <=>
            /\ TheFile.artist # None /\ trim(TheFile.artist) # ""
            /\ TheFile.title # None /\ trim(TheFile.title) # ""
      /\ (song_data # << >> /\ TheFile.album \in { None, "" }) =>
            song_data[1].album = None

\* The score the feedback service is to receive for a feedback value.
ChosenScore ==
    CASE feedback = "LOVE" -> "1"
      [] feedback = "HATE" -> "-1"
      [] feedback = "NEUTRAL" -> "0"
      [] OTHER -> None

FeedbackRequestsOf(i) ==
    { k \in DOMAIN fb_requests : fb_requests[k].task = i }

\* C18: in the feedback phase every request is for one of the resolved ids
\* and carries the chosen feedback value, no id gets a second request, the
\* requests are a limiter interval apart (each follows a permit of the
\* phase's own limiter), and when the phase ends every id has had its one
\* request, whatever the service answered, with one log line per failure.
C18_FeedbackPhase ==
    /\ \A k \in DOMAIN fb_requests :
          /\ fb_requests[k].task \in DOMAIN musicbrainz_ids
          /\ fb_requests[k].recording_mbid =
                musicbrainz_ids[fb_requests[k].task]
          /\ fb_requests[k].score = ChosenScore
          /\ k > 1 => fb_requests[k].at >= fb_requests[k - 1].at + Interval
    /\ \A i \in DOMAIN musicbrainz_ids :
          Cardinality(FeedbackRequestsOf(i)) <= 1
    /\ (phase = "finished" /\ feedback \in Feedbacks) =>
          /\ \A i \in DOMAIN musicbrainz_ids :
                Cardinality(FeedbackRequestsOf(i)) = 1
          /\ Len(fb_results) = Len(musicbrainz_ids)
          /\ fb_progress = Len(musicbrainz_ids)
          /\ Len(fb_log) =
                Cardinality({ k \in DOMAIN fb_results : ~fb_results[k].ok })

\* C18's case: feedback for two ids has ended; the first submission failed
\* and was logged, the second was made all the same.
C18_Witness ==
    /\ phase = "finished"
    /\ feedback = "HATE"
    /\ Len(musicbrainz_ids) = 2
    /\ Len(fb_requests) = 2
    /\ ~fb_results[1].ok /\ fb_results[2].ok
    /\ Len(fb_log) = 1

NoBatchActivity ==
    /\ Tasks = {}
    /\ next_permit = 0
    /\ last_request = -1

\* C19: only pre-pipeline failures end the run: with zero files, or zero
\* tracks with readable tags, the run ends with an error before the batch
\* starts (no permit taken, no lookup issued); the batch is never started
\* with an empty track list; and no failure arising while the batch runs
\* ends the run.
C19_OnlyPrePipelineFailuresEndRun ==
    /\ number_of_files = 0 =>
          /\ phase = "exit: No files read from playlist, aborting"
          /\ NoBatchActivity
    /\ number_of_tagged_songs = 0 =>
          /\ phase = "exit: No tagged songs could be read, aborting"
          /\ NoBatchActivity
    /\ phase \in { "running", "returned" } =>
          (song_data # << >> /\ Tasks # {})
    /\ Panicked => Tasks = {}

\* C20: in a run that reaches the reports, resolved <= tag-readable <= total;
\* calculate_percentage is called with a non-zero denominator both times
\* (total > 0 at line 103, tag-readable > 0 at line 118), so neither expect
\* fails, also when no track was resolved.
C20_StatisticsReports ==
    /\ phase = "tags" => number_of_files > 0
    /\ phase = "returned" => number_of_tagged_songs > 0
    /\ number_of_tagged_songs # -1 =>
          (number_of_tagged_songs <= number_of_files /\ number_of_files > 0)
    /\ number_of_resolved_songs # -1 =>
          /\ number_of_resolved_songs <= number_of_tagged_songs
          /\ number_of_resolved_songs >= 0
          /\ number_of_tagged_songs > 0
          /\ phase # "returned"
          /\ percentage * number_of_tagged_songs <=
                number_of_resolved_songs * 100
    /\ phase \notin
          { "panic: Could not calculate percentage of tagged songs",
            "panic: Could not calculate percentage of resolved songs" }

\* C20's case: the second report has been made for a batch of two tracks
\* none of which was resolved.
C20_Witness ==
    /\ phase = "confirm"
    /\ number_of_files = 2
    /\ number_of_tagged_songs = 2
    /\ number_of_resolved_songs = 0
    /\ percentage = 0

Accepting == { "Ok(true)", "Err" }

\* The user declined: the run has ended and nothing went out.
DeclineEndsRun ==
    /\ prompt = "Ok(false)" =>
          /\ phase = "exit: Aborting"
          /\ playlists = "none" /\ submission = "none"
          /\ fb_requests = << >>
    /\ (playlists # "none" \/ submission # "none" \/ fb_requests # << >>
          \/ phase \in { "playlists", "submit", "feedback", "finished" }) =>
          prompt \in Accepting

\* With a feedback option the feedback phase runs over the resolved ids,
\* whatever submit_playlist answered.
FeedbackDespiteSubmission ==
    (submission # "none" /\ feedback \in Feedbacks
       /\ musicbrainz_ids # << >>) =>
      /\ phase \in { "feedback", "finished" }
      /\ DOMAIN fb_pc = DOMAIN musicbrainz_ids
      /\ phase = "finished" =>
            \A i \in DOMAIN musicbrainz_ids :
               \E k \in DOMAIN fb_requests :
                  /\ fb_requests[k].task = i
                  /\ fb_requests[k].recording_mbid = musicbrainz_ids[i]

\* C21, as stated: if the user declines, the run ends and no playlist
\* submission or feedback request is ever issued; if the user accepts or the
\* prompt errors, the run continues to playlist submission; with a feedback
\* option the feedback phase runs over the resolved ids even if the
\* submission failed.
C21_PromptGatesSubmission ==
    /\ DeclineEndsRun
    /\ (prompt \in Accepting /\ phase # "playlists") =>
          phase \in { "submit", "feedback", "finished" }
    /\ FeedbackDespiteSubmission

\* C21, amended: as stated, but after an accepted or failed prompt the run
\* continues to the retrieval of the existing playlists, and to playlist
\* submission exactly if that retrieval succeeds; a failed retrieval ends
\* the run with nothing submitted.
C21_PromptGatesRetrievalThenSubmission ==
    /\ DeclineEndsRun
    /\ prompt \in Accepting =>
          /\ playlists = "none" <=> phase = "playlists"
          /\ playlists = "ok" => phase \in { "submit", "feedback", "finished" }
          /\ playlists = "err" =>
                /\ phase = "exit: Could not retrieve existing playlists"
                /\ submission = "none" /\ fb_requests = << >>
    /\ FeedbackDespiteSubmission

\* C21's case: the prompt itself failed, the run went on, the submission
\* failed, and feedback was given on every resolved id all the same.
C21_Witness ==
    /\ phase = "finished"
    /\ prompt = "Err"
    /\ submission = "err"
    /\ feedback \in Feedbacks
    /\ musicbrainz_ids # << >>
    /\ Len(fb_requests) = Len(musicbrainz_ids)

\* C10: any two outbound requests of a batch are at least one limiter
\* interval apart.
C10_GlobalMinimumSpacing ==
    min_gap >= Interval

=============================================================================
